---- MODULE Spec2Model ----
(***************************************************************************)
(* Model of pibooth_print_custom: the ESC/POS raster script                *)
(* (print_raster.py) and the Pibooth plugin that builds its command line   *)
(* (pibooth_print_custom.py).                                              *)
(*                                                                         *)
(* Bytes are integers 0..255, byte strings are sequences of bytes.         *)
(* Python's None is the empty sequence <<>> and a present value v is the   *)
(* one-element sequence <<v>> (Some(v)).                                   *)
(***************************************************************************)
EXTENDS Integers, Sequences, FiniteSets, TLC

VARIABLES
    args,       \* the argparse Namespace main() works on
    source,     \* the source image file as prepare_image will find it
    pc,         \* position of the process in main() and its callees
    exc,        \* the exception that ended the process ("none" when none)
    exitCode,   \* process exit status (-1 while running)
    openConns,  \* serial connections currently open
    opens,      \* serial connections opened so far
    wire,       \* bytes the serial device has accepted, in order
    file,       \* content of the dry-run output file
    img,        \* the prepared 1-bit image: width, height, raw bytes
    raster,     \* result of build_raster_bands inside send_raster
    band_idx,   \* send_raster: number of bands started
    sent,       \* send_raster: bytes of the current band acknowledged
    n,          \* send_raster: return value of the last payload ser.write
    offered,    \* send_raster: length of the last payload slice passed to ser.write
    sleeps,     \* send_raster: completed time.sleep(line_sleep) calls
    log,        \* what the process has done on the port it opened, in order
    preview,    \* prepare_image: "none", or how img1.save(preview) ended
    cfg,        \* plugin: the [ESC_POS] section of pibooth.cfg
    cmd,        \* plugin: the command build_command returned
    warnings    \* plugin: flags LOGGER.warning was called for

mainVars == <<args, source, pc, exc, exitCode, openConns, opens, wire, file, img,
              raster, band_idx, sent, n, offered, sleeps, log, preview>>
cmdVars == <<cfg, cmd, warnings>>
vars == <<args, source, pc, exc, exitCode, openConns, opens, wire, file, img,
          raster, band_idx, sent, n, offered, sleeps, log, preview, cfg, cmd, warnings>>

-----------------------------------------------------------------------------
(* Bounds of the model *)

\* SpecBands: bitmap heights 1..MaxHeight
MaxHeight == 515
\* SpecBands: --limit-lines values -MaxNegLimit..MaxLimit (and the band-sized ones)
MaxLimit == 11
MaxNegLimit == 2
\* widest bitmap in pixels (9 pixels are two bytes per row)
MaxWidth == 9
\* SpecRaster: rows of the tallest bitmap beyond one full band
MaxExtraRows == 1
\* --chunk values 1..MaxChunk (and the default)
MaxChunk == 2
\* a partial ser.write accepts 0..MaxPartial bytes, or all that was offered
MaxPartial == 2
\* Spec: bitmap heights 1..MaxSmallHeight
MaxSmallHeight == 2
\* plugin: length of the string typed for an option
MaxStrLen == 2

(* Program constants *)
BandRows == 255
\* time.sleep(0.1) in cancel_and_reset; durations are in hundredths of a second
CancelPause == 10
\* default of --line-sleep, 0.02 s
DefaultLineSleep == 2
DefaultChunk == 4096

None == <<>>
Some(v) == <<v>>
Min(a, b) == IF a < b THEN a ELSE b

-----------------------------------------------------------------------------
(* print_raster.py: build_raster_bands *)

\* bytes((~b) & 0xFF for b in buf), one byte
InvertByte(b) == (-b - 1) % 256

invert_bits(buf) == [i \in 1..Len(buf) |-> InvertByte(buf[i])]

\* width_bytes = (img1.width + 7) // 8
WidthBytes(width) == (width + 7) \div 8

\* height = img1.height if not limit_lines else min(limit_lines, img1.height)
\* ("not limit_lines" is true of None and of 0)
EffectiveHeight(height, limit_lines) ==
    IF limit_lines = None \/ limit_lines[1] = 0
    THEN height
    ELSE Min(limit_lines[1], height)

\* slice_h = min(255, height - y)
SliceH(height, y) == Min(BandRows, height - y)

\* b'\x1d\x76\x30\x00' + bytes([wL, wH, hL, hH])
BandHeader(width_bytes, slice_h) ==
    <<29, 118, 48, 0,
      width_bytes % 256, (width_bytes \div 256) % 256,
      slice_h % 256, (slice_h \div 256) % 256>>

\* the generator iter_bands, from row y on: one record per yield
\* (the memoryview raw_bytes[start:end] is kept as its two indices)
RECURSIVE iter_bands(_, _, _)
iter_bands(y, height, width_bytes) ==
    IF y < height
    THEN LET slice_h == SliceH(height, y)
             start == y * width_bytes
         IN  << [y |-> y, slice_h |-> slice_h,
                 header |-> BandHeader(width_bytes, slice_h),
                 start |-> start, end |-> start + slice_h * width_bytes] >>
             \o iter_bands(y + slice_h, height, width_bytes)
    ELSE <<>>

\* the bytes the bands are cut from: raw_bytes, inverted when invert is set
RasterRaw(raw, invert) == IF invert THEN invert_bits(raw) ELSE raw

\* (width_bytes, height, iter_bands) as send_raster and write_raster_to_file
\* get it, with the buffer the blocks of the bands are views of
build_raster_bands(image, invert, limit_lines) ==
    LET wb == WidthBytes(image.width)
        h == EffectiveHeight(image.height, limit_lines)
    IN  [width_bytes |-> wb, height |-> h, bands |-> iter_bands(0, h, wb),
         raw |-> RasterRaw(image.raw, invert)]

\* block = memoryview(raw_bytes)[start:end]
Block(raw, band) == SubSeq(raw, band.start + 1, band.end)

NoRaster == [width_bytes |-> 0, height |-> 0, bands |-> <<>>, raw |-> <<>>]
NoImage == [width |-> 0, height |-> 0, raw |-> <<>>]

-----------------------------------------------------------------------------
(* print_raster.py: byte strings written by the script *)

CAN3 == <<24, 24, 24>>                  \* b'\x18\x18\x18'
EscInit == <<27, 64>>                   \* b'\x1b@'
EscLineSpacing == <<27, 50>>            \* b'\x1b2'
CancelFeed == <<10, 10>>                \* b'\n\n' in cancel_and_reset
PartialCut == <<29, 86, 1>>             \* b'\x1dV\x01'
HelloText == <<72, 101, 108, 108, 111, 32, 69, 83, 67, 47, 80, 79, 83, 33, 10, 10>>
RasterFeedTwo == <<10, 10>>                \* the feed cancel_and_reset uses
RasterFeed == <<10, 10, 10>>            \* b'\n\n\n' in send_raster
FileTrailerTwo == <<10, 10, 29, 86, 1>>  \* a two-line feed before the cut
FileTrailer == <<10, 10, 10, 29, 86, 1>> \* b'\n\n\n\x1dV\x01' in write_raster_to_file

\* everything cancel_and_reset writes
CancelBytes == CAN3 \o EscInit \o CancelFeed \o PartialCut

\* header + block of the bands from index i on, concatenated
RECURSIVE BandBytes(_, _, _)
BandBytes(bands, raw, i) ==
    IF i > Len(bands) THEN <<>>
    ELSE bands[i].header \o Block(raw, bands[i]) \o BandBytes(bands, raw, i + 1)

\* the content write_raster_to_file leaves in the file
write_raster_to_file(image, invert, limit_lines) ==
    LET r == build_raster_bands(image, invert, limit_lines)
    IN  EscInit \o EscLineSpacing \o BandBytes(r.bands, r.raw, 1) \o FileTrailer

-----------------------------------------------------------------------------
(* print_raster.py: main, mode selection *)

\* args.cancel is True or (isinstance(args.cancel, str) and not args.image and not args.image_flag)
CancelMode(a) ==
    a.cancel = "true" \/ (a.cancel = "str" /\ ~a.image /\ ~a.image_flag)

\* the same test on args.hello, reached when the cancel test failed
HelloMode(a) ==
    /\ ~CancelMode(a)
    /\ a.hello = "true" \/ (a.hello = "str" /\ ~a.image /\ ~a.image_flag)

PrintMode(a) == ~CancelMode(a) /\ ~HelloMode(a)

\* dev = args.cancel if isinstance(args.cancel, str) else args.serial; "not dev"
CancelDevMissing(a) == ~(a.cancel = "str" \/ a.serial)
HelloDevMissing(a) == ~(a.hello = "str" \/ a.serial)

\* width = args.width_flag if args.width_flag else args.width  (0: None or 0)
ResolvedWidth(a) == IF a.width_flag # 0 THEN a.width_flag ELSE a.width

\* not image_path or not serial_dev or not width
PrintArgMissing(a) ==
    \/ ~(a.image_flag \/ a.image)
    \/ ~(a.serial_flag \/ a.serial)
    \/ ResolvedWidth(a) = 0

\* the dry-run test placed after the pre-cancel branch has opened the port
PrintTargetAfterPreCancel(a) ==
    IF a.dry_run /\ ~a.pre_cancel THEN "dry_run" ELSE "print_open"

\* "if args.dry_run: write_raster_to_file(...); return", else the with block
PrintTarget(a) == IF a.dry_run THEN "dry_run" ELSE "print_open"

\* the try/except of main around the print job; outside it an exception is
\* uncaught and the interpreter exits with status 1
HandlerExit(e, inTry) ==
    IF ~inTry THEN 1
    ELSE IF e = "SerialTimeoutException" THEN 11
    ELSE IF e = "SerialException" THEN 10
    ELSE 12

\* ser.close() after the body instead of a with block: skipped when it raises
WithExitLeaksOnRaise(conns, raised) ==
    IF raised THEN conns ELSE IF conns > 0 THEN conns - 1 ELSE 0

\* "with open_serial(...) as ser": Serial.__exit__ closes the port whether the
\* body returned or raised
WithExit(conns, raised) == IF conns > 0 THEN conns - 1 ELSE 0

\* the print job runs inside main's try block, the maintenance modes do not
InTry == PrintMode(args)

\* sys.exit(code)
Exit(code) ==
    /\ pc' = "exited"
    /\ exitCode' = code
    /\ UNCHANGED <<exc, openConns>>

\* an exception e leaves the with block (if one is open) and reaches main's
\* handlers, or none
Raise(e) ==
    /\ pc' = "exited"
    /\ exc' = e
    /\ exitCode' = HandlerExit(e, InTry)
    /\ openConns' = WithExit(openConns, TRUE)

\* entries of log: the calls that returned, in the order they were made
Opened == [op |-> "open"]
ResetBuffers == [op |-> "reset_buffers"]
Wrote(data) == [op |-> "write", data |-> data]
Flushed == [op |-> "flush"]
Slept(secs) == [op |-> "sleep", secs |-> secs]
WroteHeader(band) == [op |-> "header", y |-> band.y, data |-> band.header]
\* the sub-writes of one band's payload are one entry, counting the bytes taken
WrotePayload(band, bytes) == [op |-> "payload", y |-> band.y, bytes |-> bytes]

\* a call `did` on the open port that sends data: it returns, or raises
SerWrite(did, data, next, errors) ==
    \/ /\ wire' = wire \o data
       /\ log' = Append(log, did)
       /\ pc' = next
       /\ UNCHANGED <<exc, exitCode, openConns>>
    \/ \E e \in errors :
          /\ Raise(e)
          /\ UNCHANGED <<wire, log>>

WriteErrors == {"SerialTimeoutException", "SerialException"}
PortErrors == {"SerialException"}

-----------------------------------------------------------------------------
(* print_raster.py: main and the maintenance modes *)

\* lines 294-302: cancel mode
MainCancel ==
    /\ pc = "main"
    /\ CancelMode(args)
    /\ IF CancelDevMissing(args)
       THEN Exit(2)
       ELSE pc' = "cancel_open" /\ UNCHANGED <<exc, exitCode, openConns>>
    /\ UNCHANGED <<args, source, opens, wire, file, img, raster, band_idx, sent, n,
                   offered, sleeps, log, preview, cmdVars>>

\* lines 304-312: hello mode
MainHello ==
    /\ pc = "main"
    /\ HelloMode(args)
    /\ IF HelloDevMissing(args)
       THEN Exit(2)
       ELSE pc' = "hello_open" /\ UNCHANGED <<exc, exitCode, openConns>>
    /\ UNCHANGED <<args, source, opens, wire, file, img, raster, band_idx, sent, n,
                   offered, sleeps, log, preview, cmdVars>>

\* lines 314-329: print mode, argument and file checks
MainPrint ==
    /\ pc = "main"
    /\ PrintMode(args)
    /\ IF PrintArgMissing(args) THEN Exit(2)
       ELSE IF ~source.exists THEN Exit(3)
       ELSE pc' = "prepare" /\ UNCHANGED <<exc, exitCode, openConns>>
    /\ UNCHANGED <<args, source, opens, wire, file, img, raster, band_idx, sent, n,
                   offered, sleeps, log, preview, cmdVars>>

\* img1.tobytes(): the packed rows of the prepared image (a fixed test pattern
\* in which neighbouring bytes differ)
RawBytes(len) == [i \in 1..len |-> (37 * i + 11) % 256]

\* an image file that is opened only when its pixels are first needed
ImageLoadDeferred(src) == FALSE

\* Image.open(path).convert('RGB') raises on a file that is not an image
ImageLoadFails(src) == ~src.decodes

\* lines 160-165: "if preview:" img1.save(preview) inside try/except Exception;
\* the save works or fails, and a failure is logged and swallowed
PreviewOutcomes(a) == IF a.preview THEN {"written", "failed"} ELSE {"none"}

\* lines 331-347: prepare_image, then the choice between dry run and printing
PrepareImage ==
    /\ pc = "prepare"
    /\ IF ImageLoadFails(source)
       THEN Raise("Exception") /\ UNCHANGED <<img, preview>>
       ELSE /\ img' = [width |-> ResolvedWidth(args), height |-> source.height,
                       raw |-> RawBytes(WidthBytes(ResolvedWidth(args)) * source.height)]
            /\ preview' \in PreviewOutcomes(args)
            /\ pc' = PrintTarget(args)
            /\ UNCHANGED <<exc, exitCode, openConns>>
    /\ UNCHANGED <<args, source, opens, wire, file, raster, band_idx, sent, n,
                   offered, sleeps, log, cmdVars>>

\* line 346: write_raster_to_file, or open(out_path, 'wb') fails with OSError
DryRun ==
    /\ pc = "dry_run"
    /\ \/ /\ file' = write_raster_to_file(img, args.invert, args.limit_lines)
          /\ Exit(0)
       \/ /\ Raise("Exception")
          /\ UNCHANGED file
    /\ UNCHANGED <<args, source, opens, wire, img, raster, band_idx, sent, n,
                   offered, sleeps, log, preview, cmdVars>>

\* a print job that never calls cancel_and_reset
AfterOpenSkipsPreCancel(at) ==
    IF at = "cancel_open" THEN "c_can"
    ELSE IF at = "hello_open" THEN "h_reset"
    ELSE "r_reset"

\* where the process goes once the port is open
AfterOpen(at) ==
    IF at = "cancel_open" THEN "c_can"
    ELSE IF at = "hello_open" THEN "h_reset"
    ELSE IF args.pre_cancel THEN "c_can" ELSE "r_reset"

\* open_serial (lines 299, 309, 350): serial.Serial(...) returns an open port or raises
OpenSerial ==
    /\ pc \in {"cancel_open", "hello_open", "print_open"}
    /\ \/ /\ openConns' = openConns + 1
          /\ opens' = opens + 1
          /\ log' = Append(log, Opened)
          /\ pc' = AfterOpen(pc)
          /\ UNCHANGED <<exc, exitCode>>
       \/ /\ Raise("SerialException")
          /\ UNCHANGED <<opens, log>>
    /\ UNCHANGED <<args, source, wire, file, img, raster, band_idx, sent, n,
                   offered, sleeps, preview, cmdVars>>

\* what a step on the port leaves alone besides wire, log, pc, exc, exitCode,
\* openConns
PortFrame == UNCHANGED <<args, source, opens, file, img, raster, band_idx, sent, n,
                         offered, sleeps, preview, cmdVars>>

\* cancel_and_reset, lines 90-95
CancelWriteCAN == pc = "c_can" /\ SerWrite(Wrote(CAN3), CAN3, "c_reset", WriteErrors) /\ PortFrame
CancelWriteReset == pc = "c_reset" /\ SerWrite(Wrote(EscInit), EscInit, "c_feed", WriteErrors) /\ PortFrame
CancelWriteFeed == pc = "c_feed" /\ SerWrite(Wrote(CancelFeed), CancelFeed, "c_cut", WriteErrors) /\ PortFrame
CancelWriteCut == pc = "c_cut" /\ SerWrite(Wrote(PartialCut), PartialCut, "c_flush", WriteErrors) /\ PortFrame
CancelFlush == pc = "c_flush" /\ SerWrite(Flushed, <<>>, "c_sleep", WriteErrors) /\ PortFrame

\* time.sleep(0.1), then back to the caller: main's cancel mode or the print job
CancelSleep ==
    /\ pc = "c_sleep"
    /\ log' = Append(log, Slept(CancelPause))
    /\ pc' = IF CancelMode(args) THEN "with_exit" ELSE "r_reset"
    /\ UNCHANGED <<exc, exitCode, openConns, wire>>
    /\ PortFrame

\* send_hello, lines 99-104
HelloResetBuffers == pc = "h_reset" /\ SerWrite(ResetBuffers, <<>>, "h_init", PortErrors) /\ PortFrame
HelloWriteInit == pc = "h_init" /\ SerWrite(Wrote(EscInit), EscInit, "h_text", WriteErrors) /\ PortFrame
HelloWriteText == pc = "h_text" /\ SerWrite(Wrote(HelloText), HelloText, "h_cut", WriteErrors) /\ PortFrame
HelloWriteCut == pc = "h_cut" /\ SerWrite(Wrote(PartialCut), PartialCut, "h_flush", WriteErrors) /\ PortFrame
HelloFlush == pc = "h_flush" /\ SerWrite(Flushed, <<>>, "with_exit", WriteErrors) /\ PortFrame

\* the with block ends normally: the port is closed and main returns
WithReturn ==
    /\ pc = "with_exit"
    /\ openConns' = WithExit(openConns, FALSE)
    /\ pc' = "exited"
    /\ exitCode' = 0
    /\ UNCHANGED <<exc, wire, log>>
    /\ PortFrame

-----------------------------------------------------------------------------
(* print_raster.py: send_raster *)

\* the band the for loop is at, and its block
CurBand == raster.bands[band_idx]
CurBlock == Block(raster.raw, CurBand)

\* block[sent:sent + chunk + 1]: one byte more than the chunk size
PayloadSliceOneMore(block, done, chunk) ==
    SubSeq(block, done + 1, Min(done + chunk + 1, Len(block)))

\* block[sent:sent + chunk]
PayloadSlice(block, done, chunk) ==
    SubSeq(block, done + 1, Min(done + chunk, Len(block)))

\* "if n is None": the test that turns a return value into a write timeout
IsTimeout(ret) == ret = None

\* sent += n
Advance(done, m) == done + m

\* what ser.write(data) may do with a payload slice of k bytes: return the
\* number of bytes the port took (0..k), return None, or raise
Returns(k) == {m \in 0..k : m <= MaxPartial \/ m = k}
WriteOutcomes(k) ==
    [kind : {"returns"}, value : {Some(m) : m \in Returns(k)} \cup {None}]
    \cup [kind : {"raises"}, value : WriteErrors]
\* a port that takes at least one byte of every slice
ProgressOutcomes(k) ==
    [kind : {"returns"}, value : {Some(m) : m \in Returns(k) \ {0}}]

\* the for loop of line 220 takes the next band, or is over
NextBandPc(r, idx) == IF idx < Len(r.bands) THEN "r_header" ELSE "r_feed"

\* a loop body without time.sleep(line_sleep): straight on to the next band
AfterSubWritePcNoPause(r, idx, done, len) ==
    IF done < len THEN "r_payload" ELSE NextBandPc(r, idx)

\* "while sent < L": another sub-write, or on to lines 230-232
AfterSubWritePc(r, idx, done, len) == IF done < len THEN "r_payload" ELSE "r_sleep"

\* lines 211-212
RasterResetBuffers == pc = "r_reset" /\ SerWrite(ResetBuffers, <<>>, "r_init", PortErrors) /\ PortFrame
\* line 213
RasterWriteInit == pc = "r_init" /\ SerWrite(Wrote(EscInit), EscInit, "r_spacing", WriteErrors) /\ PortFrame
\* line 214
RasterWriteSpacing ==
    pc = "r_spacing" /\ SerWrite(Wrote(EscLineSpacing), EscLineSpacing, "r_build", WriteErrors) /\ PortFrame

\* lines 216-218
RasterBuild ==
    /\ pc = "r_build"
    /\ raster' = build_raster_bands(img, args.invert, args.limit_lines)
    /\ band_idx' = 0
    /\ pc' = NextBandPc(raster', 0)
    /\ UNCHANGED <<args, source, exc, exitCode, openConns, opens, wire, file, img,
                   sent, n, offered, sleeps, log, preview, cmdVars>>

\* lines 220-224: next band, its header, L and sent
RasterWriteHeader ==
    /\ pc = "r_header"
    /\ band_idx' = band_idx + 1
    /\ LET band == raster.bands[band_idx + 1]
       IN  \/ /\ wire' = wire \o band.header
              /\ log' = Append(log, WroteHeader(band))
              /\ sent' = 0
              /\ pc' = AfterSubWritePc(raster, band_idx', 0, band.end - band.start)
              /\ UNCHANGED <<exc, exitCode, openConns>>
           \/ \E e \in WriteErrors :
                 /\ Raise(e)
                 /\ UNCHANGED <<wire, log, sent>>
    /\ UNCHANGED <<args, source, opens, file, img, raster, n, offered, sleeps,
                   preview, cmdVars>>

\* the payload entry of the current band in the log after a sub-write: added
\* by the band's first sub-write, updated by the later ones
LogPayload(l, band, bytes) ==
    IF l # <<>> /\ l[Len(l)].op = "payload"
    THEN [l EXCEPT ![Len(l)] = WrotePayload(band, bytes)]
    ELSE Append(l, WrotePayload(band, bytes))

\* lines 225-229: one pass of the while loop, ser.write doing `out`
RasterSubWrite(out) ==
    /\ pc = "r_payload"
    /\ LET data == PayloadSlice(CurBlock, sent, args.chunk)
       IN  /\ offered' = Len(data)
           /\ IF out.kind = "raises"
              THEN /\ Raise(out.value)
                   /\ UNCHANGED <<wire, log, sent, n>>
              ELSE /\ n' = out.value
                   /\ IF IsTimeout(out.value)
                      THEN /\ Raise("SerialTimeoutException")
                           /\ UNCHANGED <<wire, log, sent>>
                      ELSE /\ wire' = wire \o SubSeq(data, 1, out.value[1])
                           /\ sent' = Advance(sent, out.value[1])
                           /\ log' = LogPayload(log, CurBand, sent')
                           /\ pc' = AfterSubWritePc(raster, band_idx, sent', Len(CurBlock))
                           /\ UNCHANGED <<exc, exitCode, openConns>>
    /\ UNCHANGED <<args, source, opens, file, img, raster, band_idx, sleeps,
                   preview, cmdVars>>

\* the port may do anything pyserial allows
RasterSubWriteAny ==
    /\ pc = "r_payload"
    /\ \E out \in WriteOutcomes(Len(PayloadSlice(CurBlock, sent, args.chunk))) :
          RasterSubWrite(out)

\* the port takes at least one byte of every slice
RasterSubWriteProgress ==
    /\ pc = "r_payload"
    /\ \E out \in ProgressOutcomes(Len(PayloadSlice(CurBlock, sent, args.chunk))) :
          RasterSubWrite(out)

\* lines 230-232: time.sleep(line_sleep), then the next band
\* (time.sleep raises ValueError when the duration is negative)
RasterSleep ==
    /\ pc = "r_sleep"
    /\ IF args.line_sleep < 0
       THEN /\ Raise("Exception")
            /\ UNCHANGED <<sleeps, log>>
       ELSE /\ sleeps' = sleeps + 1
            /\ log' = Append(log, Slept(args.line_sleep))
            /\ pc' = NextBandPc(raster, band_idx)
            /\ UNCHANGED <<exc, exitCode, openConns>>
    /\ UNCHANGED <<args, source, opens, wire, file, img,
                   raster, band_idx, sent, n, offered, preview, cmdVars>>

\* line 234
RasterWriteFeed == pc = "r_feed" /\ SerWrite(Wrote(RasterFeed), RasterFeed, "r_cut", WriteErrors) /\ PortFrame
\* line 235
RasterWriteCut == pc = "r_cut" /\ SerWrite(Wrote(PartialCut), PartialCut, "r_flush", WriteErrors) /\ PortFrame
\* line 236
RasterFlush == pc = "r_flush" /\ SerWrite(Flushed, <<>>, "with_exit", WriteErrors) /\ PortFrame

-----------------------------------------------------------------------------
(* Initial states *)

\* the plugin is not part of a run of the script
IdleCmd == cfg = <<>> /\ cmd = <<>> /\ warnings = <<>>

\* the script before main() has done anything
IdleMain ==
    /\ exc = "none" /\ exitCode = -1
    /\ openConns = 0 /\ opens = 0
    /\ wire = <<>> /\ file = <<>>
    /\ img = NoImage /\ raster = NoRaster
    /\ band_idx = 0 /\ sent = 0 /\ n = None /\ offered = 0 /\ sleeps = 0
    /\ log = <<>> /\ preview = "none"

\* Namespaces parse_args can return: positionals fill image, serial, width in
\* that order; --chunk is at least 1
ArgTokens == {"none", "true", "str"}
MainArgs ==
    {a \in [cancel : ArgTokens, hello : ArgTokens,
            image : BOOLEAN, serial : BOOLEAN, width : {0, 8},
            image_flag : BOOLEAN, serial_flag : BOOLEAN, width_flag : {0, 8},
            pre_cancel : BOOLEAN, dry_run : BOOLEAN, invert : {FALSE},
            limit_lines : {None}, chunk : {DefaultChunk},
            line_sleep : {DefaultLineSleep}, preview : BOOLEAN] :
        /\ a.serial => a.image
        /\ a.width # 0 => a.serial}

\* print jobs in the flag syntax, every rendering option varied
RasterArgs ==
    [cancel : {"none"}, hello : {"none"},
     image : {FALSE}, serial : {FALSE}, width : {0},
     image_flag : {TRUE}, serial_flag : {TRUE}, width_flag : {1, MaxWidth},
     pre_cancel : {FALSE}, dry_run : BOOLEAN, invert : BOOLEAN,
     limit_lines : {None, Some(1)},
     chunk : (1..MaxChunk) \cup {DefaultChunk},
     line_sleep : {DefaultLineSleep}, preview : {FALSE}]

\* the image file: missing, undecodable, or giving a bitmap of some height
Sources(heights) ==
    {[exists |-> FALSE, decodes |-> FALSE, height |-> 1],
     [exists |-> TRUE, decodes |-> FALSE, height |-> 1]}
    \cup [exists : {TRUE}, decodes : {TRUE}, height : heights]

Init ==
    /\ args \in MainArgs
    /\ source \in Sources(1..MaxSmallHeight)
    /\ pc = "main"
    /\ IdleMain /\ IdleCmd

InitRaster ==
    /\ args \in RasterArgs
    /\ source \in [exists : {TRUE}, decodes : {TRUE},
                   height : {1, BandRows + MaxExtraRows}]
    /\ pc = "main"
    /\ IdleMain /\ IdleCmd

\* print jobs on the port, the chunk size varied
ProgressArgs ==
    [cancel : {"none"}, hello : {"none"},
     image : {FALSE}, serial : {FALSE}, width : {0},
     image_flag : {TRUE}, serial_flag : {TRUE}, width_flag : {1},
     pre_cancel : {FALSE}, dry_run : {FALSE}, invert : BOOLEAN,
     limit_lines : {None},
     chunk : (1..MaxChunk) \cup {DefaultChunk},
     line_sleep : {DefaultLineSleep}, preview : {FALSE}]

InitProgress ==
    /\ args \in ProgressArgs
    /\ source \in [exists : {TRUE}, decodes : {TRUE},
                   height : {1, BandRows + MaxExtraRows}]
    /\ pc = "main"
    /\ IdleMain /\ IdleCmd

\* print jobs on the port with and without --pre-cancel, the pause between
\* bands valid or negative
OrderArgs ==
    [cancel : {"none"}, hello : {"none"},
     image : {FALSE}, serial : {FALSE}, width : {0},
     image_flag : {TRUE}, serial_flag : {TRUE}, width_flag : {1},
     pre_cancel : BOOLEAN, dry_run : {FALSE}, invert : {FALSE},
     limit_lines : {None},
     chunk : (1..MaxChunk) \cup {DefaultChunk},
     line_sleep : {-1, DefaultLineSleep}, preview : {FALSE}]

\* bitmaps of one band and of three
InitOrder ==
    /\ args \in OrderArgs
    /\ source \in [exists : {TRUE}, decodes : {TRUE},
                   height : {1, 2 * BandRows + MaxExtraRows}]
    /\ pc = "main"
    /\ IdleMain /\ IdleCmd

\* inputs of build_raster_bands alone
BandLimits ==
    {None} \cup {Some(l) : l \in (-MaxNegLimit..MaxLimit)
                             \cup {BandRows, BandRows + 1, 2 * BandRows + 1}}
BandArgs ==
    [cancel : {"none"}, hello : {"none"},
     image : {FALSE}, serial : {FALSE}, width : {0},
     image_flag : {TRUE}, serial_flag : {TRUE}, width_flag : 1..MaxWidth,
     pre_cancel : {FALSE}, dry_run : {FALSE}, invert : {FALSE},
     limit_lines : BandLimits, chunk : {DefaultChunk},
     line_sleep : {DefaultLineSleep}, preview : {FALSE}]

InitBands ==
    /\ args \in BandArgs
    /\ source \in [exists : {TRUE}, decodes : {TRUE}, height : 1..MaxHeight]
    /\ pc = "bands"
    /\ exc = "none" /\ exitCode = -1
    /\ openConns = 0 /\ opens = 0
    /\ wire = <<>> /\ file = <<>>
    /\ img = [width |-> ResolvedWidth(args), height |-> source.height, raw |-> <<>>]
    /\ raster = NoRaster
    /\ band_idx = 0 /\ sent = 0 /\ n = None /\ offered = 0 /\ sleeps = 0
    /\ log = <<>> /\ preview = "none"
    /\ IdleCmd

\* build_raster_bands applied to the inputs, its generator run to the end
BuildBands ==
    /\ pc = "bands"
    /\ raster' = build_raster_bands(img, args.invert, args.limit_lines)
    /\ pc' = "banded"
    /\ UNCHANGED <<args, source, exc, exitCode, openConns, opens, wire, file, img,
                   band_idx, sent, n, offered, sleeps, log, preview, cmdVars>>

-----------------------------------------------------------------------------
(* Specifications *)

\* one run of print_raster.py, any mode
Next ==
    \/ MainCancel \/ MainHello \/ MainPrint
    \/ PrepareImage \/ DryRun \/ OpenSerial
    \/ CancelWriteCAN \/ CancelWriteReset \/ CancelWriteFeed \/ CancelWriteCut
    \/ CancelFlush \/ CancelSleep
    \/ HelloResetBuffers \/ HelloWriteInit \/ HelloWriteText \/ HelloWriteCut
    \/ HelloFlush
    \/ RasterResetBuffers \/ RasterWriteInit \/ RasterWriteSpacing \/ RasterBuild
    \/ RasterWriteHeader \/ RasterSubWriteAny \/ RasterSleep
    \/ RasterWriteFeed \/ RasterWriteCut \/ RasterFlush
    \/ WithReturn

Spec == Init /\ [][Next]_vars

\* one print job, bitmaps taller than a band
NextRaster ==
    \/ MainPrint \/ PrepareImage \/ DryRun \/ OpenSerial
    \/ RasterResetBuffers \/ RasterWriteInit \/ RasterWriteSpacing \/ RasterBuild
    \/ RasterWriteHeader \/ RasterSubWriteAny \/ RasterSleep
    \/ RasterWriteFeed \/ RasterWriteCut \/ RasterFlush
    \/ WithReturn

SpecRaster == InitRaster /\ [][NextRaster]_vars

\* one print job on a port that takes at least one byte of every payload
\* slice; the process is not stopped from outside, so it keeps taking steps
NextProgress ==
    \/ MainPrint \/ PrepareImage \/ OpenSerial
    \/ RasterResetBuffers \/ RasterWriteInit \/ RasterWriteSpacing \/ RasterBuild
    \/ RasterWriteHeader \/ RasterSubWriteProgress \/ RasterSleep
    \/ RasterWriteFeed \/ RasterWriteCut \/ RasterFlush
    \/ WithReturn

SpecProgress == InitProgress /\ [][NextProgress]_vars /\ WF_vars(NextProgress)

\* one print job on the port, with the cancel/reset sequence when asked for
NextOrder ==
    \/ MainPrint \/ PrepareImage \/ OpenSerial
    \/ CancelWriteCAN \/ CancelWriteReset \/ CancelWriteFeed \/ CancelWriteCut
    \/ CancelFlush \/ CancelSleep
    \/ RasterResetBuffers \/ RasterWriteInit \/ RasterWriteSpacing \/ RasterBuild
    \/ RasterWriteHeader \/ RasterSubWriteAny \/ RasterSleep
    \/ RasterWriteFeed \/ RasterWriteCut \/ RasterFlush
    \/ WithReturn

SpecOrder == InitOrder /\ [][NextOrder]_vars

\* build_raster_bands as a function of its inputs
NextBands == BuildBands

SpecBands == InitBands /\ [][NextBands]_vars

-----------------------------------------------------------------------------
(* pibooth_print_custom.py: the plugin's command builder *)

\* A configured string is a sequence of characters; a token of the command
\* is a fixed word (a flag, "python3", a path) or a configured string.
Word(w) == [word |-> w, chars |-> <<>>]
Chars(c) == [word |-> "", chars |-> c]

Digits == {"0", "1", "2", "3", "4", "5", "6", "7", "8", "9"}

\* str.strip(): whitespace removed at both ends
RECURSIVE LStrip(_)
LStrip(str) == IF str # <<>> /\ Head(str) = " " THEN LStrip(Tail(str)) ELSE str
RECURSIVE RStrip(_)
RStrip(str) ==
    IF str # <<>> /\ str[Len(str)] = " " THEN RStrip(SubSeq(str, 1, Len(str) - 1)) ELSE str
Strip(str) == RStrip(LStrip(str))

\* the string without a leading sign
Unsigned(str) == IF str # <<>> /\ Head(str) \in {"+", "-"} THEN Tail(str) ELSE str

\* int(vs) does not raise: an optional sign and one or more digits
IsInt(vs) ==
    LET body == Unsigned(vs)
    IN  body # <<>> /\ \A i \in 1..Len(body) : body[i] \in Digits

\* float(vs) does not raise: an optional sign, digits with at most one point,
\* at least one digit
IsFloat(vs) ==
    LET body == Unsigned(vs)
    IN  /\ \A i \in 1..Len(body) : body[i] \in Digits \cup {"."}
        /\ Cardinality({i \in 1..Len(body) : body[i] = "."}) <= 1
        /\ \E i \in 1..Len(body) : body[i] \in Digits

\* cast(vs) returns
CastOk(cast, vs) == IF cast = "int" THEN IsInt(vs) ELSE IsFloat(vs)

\* the flag appended with its value though cast(vs) raised
add_numeric_option_unchecked(acc, flag, value_str, cast) ==
    LET vs == Strip(value_str)
    IN  IF vs = <<>> THEN acc
        ELSE [acc EXCEPT !.cmd = @ \o <<Word(flag), Chars(vs)>>]

\* CustomPrinter._add_numeric_option; acc is the command so far and the
\* warnings logged so far
add_numeric_option(acc, flag, value_str, cast) ==
    LET vs == Strip(value_str)
    IN  IF vs = <<>> THEN acc
        ELSE IF CastOk(cast, vs)
        THEN [acc EXCEPT !.cmd = @ \o <<Word(flag), Chars(vs)>>]
        ELSE [acc EXCEPT !.warnings = Append(@, [flag |-> flag, value |-> value_str])]

\* CustomPrinter._add_bool_flag
add_bool_flag(acc, flag, enabled) ==
    IF enabled THEN [acc EXCEPT !.cmd = Append(@, Word(flag))] ELSE acc

\* CustomPrinter._add_path_option
add_path_option(acc, flag, path_value) ==
    LET pv == Strip(path_value)
    IN  IF pv # <<>> THEN [acc EXCEPT !.cmd = @ \o <<Word(flag), Chars(pv)>>] ELSE acc

\* the threshold step of build_command: examined only when no_dither is set
add_threshold(acc, c) ==
    IF c.no_dither
    THEN add_numeric_option(acc, "--threshold", Strip(c.num["threshold"]), "int")
    ELSE acc

\* CustomPrinter.build_command: the command and the warnings logged on the way
build_command(c) ==
    LET a0 == [cmd |-> <<Word("python3"), Word("script_path"),
                         Word("--print"), Word("filename"),
                         Word("--dev"), Word("serial_device"),
                         Word("--width"), Chars(c.target_width)>>,
               warnings |-> <<>>]
        a1 == add_numeric_option(a0, "--baud", c.num["baudrate"], "int")
        a2 == add_bool_flag(a1, "--no-autorotate", c.no_autorotate)
        a3 == add_bool_flag(a2, "--pre-cancel", c.pre_cancel)
        a4 == add_bool_flag(a3, "--invert", c.invert)
        a5 == add_bool_flag(a4, "--no-dither", c.no_dither)
        a6 == add_threshold(a5, c)
        a7 == add_numeric_option(a6, "--contrast", c.num["contrast"], "float")
        a8 == add_numeric_option(a7, "--gamma", c.num["gamma"], "float")
        a9 == add_numeric_option(a8, "--chunk", c.num["chunk"], "int")
        a10 == add_numeric_option(a9, "--line-sleep", c.num["line_sleep"], "float")
        a11 == add_numeric_option(a10, "--limit-lines", c.num["limit_lines"], "int")
        a12 == add_path_option(a11, "--preview", c.preview)
    IN  add_path_option(a12, "--dry-run", c.dry_run)

\* the string-valued numeric options, with flag and cast
NumericOptions ==
    {"baudrate", "threshold", "contrast", "gamma", "chunk", "line_sleep", "limit_lines"}
FlagOf(o) ==
    CASE o = "baudrate" -> "--baud"
      [] o = "threshold" -> "--threshold"
      [] o = "contrast" -> "--contrast"
      [] o = "gamma" -> "--gamma"
      [] o = "chunk" -> "--chunk"
      [] o = "line_sleep" -> "--line-sleep"
      [] o = "limit_lines" -> "--limit-lines"
CastOf(o) == IF o \in {"baudrate", "threshold", "chunk", "limit_lines"} THEN "int" ELSE "float"

\* pibooth_configure: the defaults of the [ESC_POS] section
DefaultNum ==
    [o \in NumericOptions |->
        CASE o = "baudrate" -> <<"9", "6", "0", "0">>
          [] o = "threshold" -> <<"1", "3", "0">>
          [] o = "contrast" -> <<"1", ".", "3">>
          [] o = "gamma" -> <<>>
          [] o = "chunk" -> <<"4", "0", "9", "6">>
          [] o = "line_sleep" -> <<"0", ".", "0", "2">>
          [] o = "limit_lines" -> <<>>]
DefaultCfg ==
    [num |-> DefaultNum, target_width |-> <<"3", "8", "4">>,
     no_autorotate |-> FALSE, pre_cancel |-> TRUE, invert |-> TRUE, no_dither |-> FALSE,
     preview |-> <<>>, dry_run |-> <<>>]

\* strings a user may have typed for an option, up to MaxStrLen characters
EditChars == {"7", ".", " ", "x", "-"}
Strings == UNION {[1..len -> EditChars] : len \in 0..MaxStrLen}

\* configurations: one numeric option holds any string, at most one other a
\* value that is no number, the rest their defaults
CmdConfigs ==
    {[DefaultCfg EXCEPT !.num = [o \in NumericOptions |->
                                    IF o = k THEN v
                                    ELSE IF o \in bad THEN <<"x">> ELSE DefaultNum[o]],
                        !.no_dither = nd,
                        !.no_autorotate = flip, !.pre_cancel = ~flip, !.invert = ~flip,
                        !.dry_run = path] :
        k \in NumericOptions, v \in Strings,
        bad \in {{}} \cup {{o} : o \in NumericOptions},
        nd \in BOOLEAN, flip \in BOOLEAN, path \in {<<>>, <<" ", "o">>}}

InitCmd ==
    /\ cfg \in CmdConfigs
    /\ cmd = <<>>
    /\ warnings = <<>>
    /\ pc = "config"
    /\ args = [cancel |-> "none", hello |-> "none", image |-> FALSE, serial |-> FALSE,
               width |-> 0, image_flag |-> FALSE, serial_flag |-> FALSE, width_flag |-> 0,
               pre_cancel |-> FALSE, dry_run |-> FALSE, invert |-> FALSE,
               limit_lines |-> None, chunk |-> DefaultChunk]
    /\ source = [exists |-> FALSE, decodes |-> FALSE, height |-> 1]
    /\ IdleMain

\* print_file calls build_command(filename)
BuildCommand ==
    /\ pc = "config"
    /\ cmd' = build_command(cfg).cmd
    /\ warnings' = build_command(cfg).warnings
    /\ pc' = "built"
    /\ UNCHANGED <<args, source, exc, exitCode, openConns, opens, wire, file, img,
                   raster, band_idx, sent, n, offered, sleeps, log, preview, cfg>>

NextCmd == BuildCommand

SpecCmd == InitCmd /\ [][NextCmd]_vars

-----------------------------------------------------------------------------
(* Properties of build_raster_bands (SpecBands) *)

RECURSIVE SumRows(_, _)
SumRows(bands, k) == IF k = 0 THEN 0 ELSE bands[k].slice_h + SumRows(bands, k - 1)

\* C2: one iteration of the band sequence emits bands whose row counts sum to
\* the effective height build_raster_bands returns; every band has between 1
\* and 255 rows and starts at the row that is the sum of the row counts of the
\* bands before it.
C2_BandsCoverEffectiveHeight ==
    pc = "banded" =>
        /\ SumRows(raster.bands, Len(raster.bands)) = raster.height
        /\ \A k \in 1..Len(raster.bands) :
              /\ raster.bands[k].slice_h \in 1..255
              /\ raster.bands[k].y = SumRows(raster.bands, k - 1)

\* C3: the effective height is min(row_limit, height) when row_limit is set
\* and positive, and height when it is absent, zero or negative; row_limit 10
\* on a 300-row bitmap gives exactly one band of 10 rows.
C3_EffectiveHeight ==
    pc = "banded" =>
        /\ raster.height =
              IF args.limit_lines # None /\ args.limit_lines[1] > 0
              THEN Min(args.limit_lines[1], img.height)
              ELSE img.height
        /\ (args.limit_lines = Some(10) /\ img.height = 300) =>
              (Len(raster.bands) = 1 /\ raster.bands[1].slice_h = 10)

-----------------------------------------------------------------------------
(* Properties of send_raster and write_raster_to_file (SpecRaster, SpecProgress) *)

\* the job ended with exit status 0 after printing on the port / after a dry run
PrintedOk == pc = "exited" /\ exitCode = 0 /\ PrintMode(args) /\ ~args.dry_run
DryRunOk == pc = "exited" /\ exitCode = 0 /\ PrintMode(args) /\ args.dry_run

\* the bytes send_raster put on the connection: all but what a preceding
\* cancel_and_reset wrote
RasterWire ==
    IF args.pre_cancel THEN SubSeq(wire, Len(CancelBytes) + 1, Len(wire)) ELSE wire

\* C1: a payload sub-write that reports zero bytes written raises the write
\* timeout; no further write follows it and the job does not stay in the
\* loop of that band.
C1_ZeroWriteIsTimeout ==
    n = Some(0) => (pc = "exited" /\ exc = "SerialTimeoutException")

\* C4: the stream write_raster_to_file puts in the file is, byte for byte,
\* what a successful send_raster wrote to the connection for the same bitmap,
\* invert flag and row limit, whatever the chunk size and the partial writes.
C4_FileEqualsSerial ==
    PrintedOk => RasterWire = write_raster_to_file(img, args.invert, args.limit_lines)

C4_Witness ==
    /\ PrintedOk
    /\ Len(raster.bands) = 2
    /\ args.invert
    /\ args.chunk = 2
    /\ img.width = MaxWidth

\* length of init, line spacing and all bands of the job
BodyLen ==
    LET r == build_raster_bands(img, FALSE, args.limit_lines)
    IN  Len(EscInit) + Len(EscLineSpacing) + Len(BandBytes(r.bands, r.raw, 1))

\* what a stream holds after the last band
AfterBands(stream) == SubSeq(stream, BodyLen + 1, Len(stream))

\* C7 as stated: the feed after the last band is 0A 0A on the serial
\* connection and 0A 0A 0A in the file, each followed by the cut 1D 56 01.
C7_FeedTwoOnSerialThreeInFile ==
    /\ PrintedOk => AfterBands(RasterWire) = <<10, 10, 29, 86, 1>>
    /\ DryRunOk => AfterBands(file) = <<10, 10, 10, 29, 86, 1>>

\* C7 amended: the feed after the last band is the three bytes 0A 0A 0A on
\* the serial connection as in the file, each followed by the cut 1D 56 01.
C7_FeedThreeOnBoth ==
    /\ PrintedOk => AfterBands(RasterWire) = <<10, 10, 10, 29, 86, 1>>
    /\ DryRunOk => AfterBands(file) = <<10, 10, 10, 29, 86, 1>>

C7_Witness ==
    /\ PrintedOk
    /\ Len(raster.bands) = 2
    /\ AfterBands(RasterWire) = <<10, 10, 10, 29, 86, 1>>

\* C10: on a port that takes between 1 and the offered number of bytes, every
\* payload sub-write offers at most chunk bytes, the bytes on the wire for the
\* band are the first `sent` bytes of its block in order, the loop of a band
\* ends, and it ends with sent equal to the length of the block.
C10_ChunkedPayload ==
    /\ [](/\ offered <= args.chunk
          /\ pc \in {"r_payload", "r_sleep"} =>
                /\ sent <= Len(CurBlock)
                /\ SubSeq(wire, Len(wire) - sent + 1, Len(wire))
                      = SubSeq(CurBlock, 1, sent)
          /\ pc = "r_sleep" => sent = Len(CurBlock))
    /\ (pc = "r_payload") ~> (pc = "r_sleep")

C10_Witness ==
    /\ pc = "r_sleep"
    /\ args.chunk = 1
    /\ Len(raster.bands) = 2
    /\ sent = Len(CurBlock)
    /\ sent = BandRows

-----------------------------------------------------------------------------
(* Properties of main (Spec) *)

\* a required argument of the selected mode is missing
ArgMissing ==
    \/ CancelMode(args) /\ CancelDevMissing(args)
    \/ HelloMode(args) /\ HelloDevMissing(args)
    \/ PrintMode(args) /\ PrintArgMissing(args)

\* the exit status the contract gives the way the run ended
ContractCode ==
    IF exc = "SerialTimeoutException" THEN 11
    ELSE IF exc = "SerialException" THEN 10
    ELSE IF exc = "Exception" THEN 12
    ELSE IF ArgMissing THEN 2
    ELSE IF PrintMode(args) /\ ~source.exists THEN 3
    ELSE 0

\* C5: in every mode main ends with the exit status of the contract: 0 on
\* success, 2 for a missing argument, 3 for a missing image, 10 for a serial
\* error, 11 for a write timeout, 12 for any other failure.
C5_ExitCodeContract ==
    pc = "exited" => exitCode = ContractCode

\* C6: at most one serial connection is open at any time, and every
\* connection main opened is closed when the process has exited, however it
\* exited.
C6_ConnectionClosed ==
    /\ openConns <= 1
    /\ pc = "exited" => openConns = 0

C6_Witness ==
    /\ pc = "exited"
    /\ opens = 1
    /\ exc = "SerialTimeoutException"
    /\ PrintMode(args) /\ args.pre_cancel
    /\ Len(wire) > Len(CancelBytes)

\* C8: a print invocation given a dry-run path opens no serial connection and
\* writes no byte to a serial device, pre_cancel or not; when it succeeds the
\* stream is in the file.
C8_DryRunNeverOpens ==
    (PrintMode(args) /\ args.dry_run) =>
        /\ opens = 0 /\ openConns = 0 /\ wire = <<>>
        /\ (pc = "exited" /\ exitCode = 0) =>
              file = write_raster_to_file(img, args.invert, args.limit_lines)

C8_Witness ==
    /\ DryRunOk
    /\ args.pre_cancel
    /\ Len(file) > Len(FileTrailer)

-----------------------------------------------------------------------------
(* Properties of build_command (SpecCmd) *)

\* the option's string, stripped, is not empty and fails its validation / is empty
InvalidOption(o) ==
    Strip(cfg.num[o]) # <<>> /\ ~CastOk(CastOf(o), Strip(cfg.num[o]))
EmptyOption(o) == Strip(cfg.num[o]) = <<>>

\* the flag is a token of the command / a warning was logged for the flag
InCmd(flag) == \E i \in 1..Len(cmd) : cmd[i].word = flag
Warned(flag) == \E i \in 1..Len(warnings) : warnings[i].flag = flag

\* the command build_command returns when the option is absent (empty)
CmdWithout(o) == build_command([cfg EXCEPT !.num[o] = <<>>]).cmd

\* C9 as stated: a numeric option that fails its validation is left out of
\* the command and a warning is logged for it; an empty one is left out
\* silently; in both cases the command is the one built without the option.
C9_InvalidOmittedAndWarned ==
    pc = "built" =>
        \A o \in NumericOptions :
            /\ InvalidOption(o) =>
                  ~InCmd(FlagOf(o)) /\ Warned(FlagOf(o)) /\ cmd = CmdWithout(o)
            /\ EmptyOption(o) =>
                  ~InCmd(FlagOf(o)) /\ ~Warned(FlagOf(o)) /\ cmd = CmdWithout(o)

\* C9 amended: as stated, except that threshold is examined only when
\* no_dither is set: with no_dither off it is left out silently whatever its
\* value.
C9_InvalidOmittedWarnedIfExamined ==
    pc = "built" =>
        \A o \in NumericOptions :
            LET examined == o # "threshold" \/ cfg.no_dither
            IN  /\ InvalidOption(o) =>
                      /\ ~InCmd(FlagOf(o))
                      /\ Warned(FlagOf(o)) <=> examined
                      /\ cmd = CmdWithout(o)
                /\ EmptyOption(o) =>
                      ~InCmd(FlagOf(o)) /\ ~Warned(FlagOf(o)) /\ cmd = CmdWithout(o)
                /\ ~examined => ~InCmd(FlagOf(o)) /\ ~Warned(FlagOf(o))

C9_Witness ==
    /\ pc = "built"
    /\ cfg.no_dither
    /\ InvalidOption("threshold") /\ Warned("--threshold")
    /\ InvalidOption("baudrate") /\ Warned("--baud")
    /\ InCmd("--contrast")

-----------------------------------------------------------------------------
(* The order of the calls on the port *)

IsPrefix(a, b) == Len(a) <= Len(b) /\ a = SubSeq(b, 1, Len(a))

\* what cancel_and_reset does on the port
CancelOrder ==
    <<Wrote(CAN3), Wrote(EscInit), Wrote(CancelFeed), Wrote(PartialCut), Flushed,
      Slept(CancelPause)>>
\* what a print job does before its first band and after its last
JobHead(a) ==
    <<Opened>> \o (IF a.pre_cancel THEN CancelOrder ELSE <<>>)
    \o <<ResetBuffers, Wrote(EscInit), Wrote(EscLineSpacing)>>
TrailerOrder == <<Wrote(RasterFeed), Wrote(PartialCut), Flushed>>

NotSleep(e) == e.op # "sleep"
IsBandEntry(e) == e.op \in {"header", "payload"}
\* the payload length a band header announces: width in bytes times rows
AnnouncedLen(h) == (h[5] + 256 * h[6]) * (h[7] + 256 * h[8])

\* the writes of send_raster after the line spacing, pauses left out
JobWrites == SelectSeq(SubSeq(log, Len(JobHead(args)) + 1, Len(log)), NotSleep)
BandWrites == SelectSeq(JobWrites, IsBandEntry)

\* headers and payloads alternate; a payload belongs to the header before it
\* and is complete before anything follows it; start rows strictly ascend
BandsInOrder(w) ==
    \A i \in 1..Len(w) :
       IF i % 2 = 1
       THEN /\ w[i].op = "header"
            /\ i > 2 => w[i].y > w[i - 2].y
       ELSE /\ w[i].op = "payload"
            /\ w[i].y = w[i - 1].y
            /\ w[i].bytes <= AnnouncedLen(w[i - 1].data)
            /\ i < Len(w) => w[i].bytes = AnnouncedLen(w[i - 1].data)

\* C11: in a print job the calls on the port come in one order: open, the
\* whole cancel/reset sequence when pre_cancel is set, buffers cleared, init,
\* line spacing, then per band its header and its complete payload with start
\* rows ascending, then feed, partial cut and flush, all on one connection.
C11_FixedWriteOrder ==
    (PrintMode(args) /\ log # <<>>) =>
        /\ opens = 1
        /\ IF Len(log) <= Len(JobHead(args))
           THEN IsPrefix(log, JobHead(args))
           ELSE /\ IsPrefix(JobHead(args), log)
                /\ IsPrefix(BandWrites, JobWrites)
                /\ BandsInOrder(BandWrites)
                /\ LET trailer == SubSeq(JobWrites, Len(BandWrites) + 1, Len(JobWrites))
                   IN  /\ IsPrefix(trailer, TrailerOrder)
                       /\ trailer # <<>> =>
                             /\ Len(BandWrites) % 2 = 0
                             /\ BandWrites # <<>> =>
                                   BandWrites[Len(BandWrites)].bytes
                                     = AnnouncedLen(BandWrites[Len(BandWrites) - 1].data)

\* a job with --pre-cancel has printed a bitmap of three bands
C11_Witness ==
    /\ pc = "exited" /\ exitCode = 0
    /\ args.pre_cancel
    /\ Len(BandWrites) = 6
    /\ log[Len(log)] = Flushed

-----------------------------------------------------------------------------
(* The pause between bands *)

\* the calls of send_raster in the log: what follows the clearing of the buffers
RasterLog ==
    IF \E i \in 1..Len(log) : log[i] = ResetBuffers
    THEN LET first == CHOOSE i \in 1..Len(log) : log[i] = ResetBuffers
         IN  SubSeq(log, first + 1, Len(log))
    ELSE <<>>
HeadersIn(l) == SelectSeq(l, LAMBDA e : e.op = "header")
PausesIn(l) == SelectSeq(l, LAMBDA e : e.op = "sleep")

\* C12: in send_raster every pause lasts line_sleep and directly follows a
\* band's complete payload; every band header but the first, and the trailing
\* feed after a band, directly follows the pause of the band before it; so
\* there is one pause per band sent, and never two in a row.
C12_OnePausePerBand ==
    PrintMode(args) =>
        LET l == RasterLog
        IN  /\ \A i \in 1..Len(l) :
                  /\ l[i].op = "sleep" =>
                        /\ l[i] = Slept(args.line_sleep)
                        /\ i > 2
                        /\ l[i - 1].op = "payload"
                        /\ l[i - 2].op = "header"
                        /\ l[i - 1].y = l[i - 2].y
                        /\ l[i - 1].bytes = AnnouncedLen(l[i - 2].data)
                  /\ (l[i].op = "header" /\ HeadersIn(SubSeq(l, 1, i - 1)) # <<>>) =>
                        l[i - 1].op = "sleep"
                  /\ (l[i] = Wrote(RasterFeed) /\ HeadersIn(l) # <<>>) =>
                        l[i - 1].op = "sleep"
            /\ sleeps = Len(PausesIn(l))
            /\ Len(HeadersIn(l)) - 1 <= sleeps /\ sleeps <= Len(HeadersIn(l))
            /\ pc \in {"r_header", "r_feed", "r_cut", "r_flush", "with_exit"} =>
                  sleeps = Len(HeadersIn(l))

\* a bitmap of three bands has been printed with three pauses
C12_Witness ==
    /\ pc = "exited" /\ exitCode = 0
    /\ Len(raster.bands) = 3
    /\ sleeps = 3
    /\ Len(PausesIn(RasterLog)) = 3

-----------------------------------------------------------------------------
(* Image preparation and the port *)

ImageUnusable == ~source.exists \/ ~source.decodes

\* C13: in a print invocation the image is prepared before the port is
\* opened: with a missing or undecodable source the job ends with an error
\* status, no connection ever opened and no byte written; a preview file that
\* cannot be written leaves the job running, without an exception.
C13_PrepareBeforeOpen ==
    /\ [](PrintMode(args) =>
            /\ ImageUnusable =>
                  /\ opens = 0 /\ openConns = 0
                  /\ wire = <<>> /\ log = <<>> /\ file = <<>>
                  /\ pc = "exited" => exitCode \in {2, 3, 12}
            /\ opens > 0 => img # NoImage)
    /\ [][(pc = "prepare" /\ preview' = "failed") =>
              (pc' = PrintTarget(args) /\ exc' = "none" /\ exitCode' = -1)]_vars

\* the preview could not be written and the bitmap was printed all the same
C13_Witness ==
    /\ PrintMode(args) /\ args.preview /\ preview = "failed"
    /\ pc = "exited" /\ exitCode = 0
    /\ opens = 1 /\ wire # <<>>
====
